---- MODULE Spec2Model ----
(***************************************************************************)
(* State-machine model of the snake game engine in src/snake_game.py:      *)
(* Snake (body, direction, pending_direction, grow_pending), Food          *)
(* (position) and SnakeGame (score, game_over, paused), driven by the      *)
(* frames of SnakeGame.run and the key events of SnakeGame.handle_events.  *)
(*                                                                         *)
(* A Point is the pair <<x, y>>.  The grid of the source is 30 x 22; the   *)
(* model runs the same code on a smaller grid so that the walls and a      *)
(* completely filled grid are within reach of exhaustive exploration.      *)
(***************************************************************************)
EXTENDS Integers, Sequences, FiniteSets

\* Grid dimensions.  The source sets GRID_WIDTH = 30 and GRID_HEIGHT = 22
\* (snake_game.py:10-11); the logic uses them only as bounds of the grid, and the
\* model uses the smallest grid that holds the initial snake and lets it turn.
GRID_WIDTH == 5
GRID_HEIGHT == 2

VARIABLES
    body,               \* Snake.body: sequence of Points, head first
    direction,          \* Snake.direction
    pending_direction,  \* Snake.pending_direction
    grow_pending,       \* Snake.grow_pending
    position,           \* Food.position
    score,              \* SnakeGame.score
    game_over,          \* SnakeGame.game_over
    paused,             \* SnakeGame.paused
    status,             \* the process: "running", "exited" (sys.exit), "crashed" (uncaught exception)
    food_eaten,         \* history: foods eaten since the last reset
    last                \* history: the branch of the code taken by the last step

snake == <<body, direction, pending_direction, grow_pending>>
game == <<snake, position, score, game_over, paused>>
vars == <<game, status, food_eaten, last>>

----------------------------------------------------------------------------
\* Point and grid

Point(x, y) == <<x, y>>

\* The values of DIRECTION_VECTORS.
DIRECTION_VECTORS == {Point(0, -1), Point(0, 1), Point(-1, 0), Point(1, 0)}

\* All cells of the grid: Point(x, y) for x in range(GRID_WIDTH), y in range(GRID_HEIGHT).
Cells == {Point(x, y) : x \in 0..(GRID_WIDTH - 1), y \in 0..(GRID_HEIGHT - 1)}

\* A bounds test that lets the head onto column GRID_WIDTH (<= for <).
InGrid_OffByOne(p) == 0 <= p[1] /\ p[1] <= GRID_WIDTH /\ 0 <= p[2] /\ p[2] < GRID_HEIGHT

\* The bounds test of SnakeGame.update.
InGrid(p) == 0 <= p[1] /\ p[1] < GRID_WIDTH /\ 0 <= p[2] /\ p[2] < GRID_HEIGHT

Elems(s) == {s[i] : i \in 1..Len(s)}

----------------------------------------------------------------------------
\* Snake

\* Snake.__init__: three cells to the right of the grid centre, heading left.
InitialBody == [i \in 1..3 |-> Point((GRID_WIDTH \div 2) + (i - 1), GRID_HEIGHT \div 2)]
\* A snake that starts out heading right.
InitialDirection_Right == Point(1, 0)

InitialDirection == Point(-1, 0)

\* Snake.head
head == body[1]

\* The test of Snake.set_direction: d is the exact opposite of dir.
IsOpposite(d, dir) == d[1] = -dir[1] /\ d[2] = -dir[2]

\* A set_direction without the reversal test.
set_direction_AcceptsAll(d) == d

\* A set_direction that tests the request against pending_direction.
set_direction_AgainstPending(d) ==
    IF IsOpposite(d, pending_direction) THEN pending_direction ELSE d

\* Snake.set_direction: the new pending_direction.
set_direction(d) ==
    IF IsOpposite(d, direction) THEN pending_direction ELSE d

\* Snake.move: the new head.
new_head(b, dir) == Point(b[1][1] + dir[1], b[1][2] + dir[2])

\* A move that never removes the tail.
move_body_NeverPops(b, dir, gp) ==
    <<new_head(b, dir)>> \o b

\* A move that removes the old head (pop(0)) where the code removes the tail.
move_body_DropsOldHead(b, dir, gp) ==
    IF gp > 0
    THEN <<new_head(b, dir)>> \o b
    ELSE <<new_head(b, dir)>> \o SubSeq(b, 2, Len(b))

\* A move that always drops the tail.
move_body_AlwaysPops(b, dir, gp) ==
    <<new_head(b, dir)>> \o SubSeq(b, 1, Len(b) - 1)

\* Snake.move: the new body; the tail is kept iff grow_pending > 0.
move_body(b, dir, gp) ==
    IF gp > 0
    THEN <<new_head(b, dir)>> \o b
    ELSE <<new_head(b, dir)>> \o SubSeq(b, 1, Len(b) - 1)

\* Snake.move: the new grow_pending.
move_grow(gp) == IF gp > 0 THEN gp - 1 ELSE gp

\* A hits_self that leaves the tail cell out of the search.
hits_self_SkipsTail(b) == \E i \in 2..(Len(b) - 1) : b[i] = b[1]

\* Snake.hits_self: head in body[1:].
hits_self(b) == \E i \in 2..Len(b) : b[i] = b[1]

----------------------------------------------------------------------------
\* Food

\* Food._random_position: the cells random.choice draws from.
available(occupied) == {c \in Cells : c \notin Elems(occupied)}

----------------------------------------------------------------------------
\* SnakeGame

\* SnakeGame.__init__ -> reset(): a new Snake, a Food outside it, cleared score and flags.
Init ==
    /\ body = InitialBody
    /\ direction = InitialDirection
    /\ pending_direction = InitialDirection
    /\ grow_pending = 0
    /\ position \in available(InitialBody)
    /\ score = 0
    /\ game_over = FALSE
    /\ paused = FALSE
    /\ status = "running"
    /\ food_eaten = 0
    /\ last = "initial"

\* A direction key that is ignored while the game is paused.
KeyDirection_NotWhilePaused(d) ==
    /\ status = "running"
    /\ pending_direction' = IF paused THEN pending_direction ELSE set_direction(d)
    /\ last' = IF IsOpposite(d, direction) THEN "direction_dropped" ELSE "direction_set"
    /\ UNCHANGED <<body, direction, grow_pending, position, score, game_over, paused,
                   status, food_eaten>>

\* handle_events, KEYDOWN of a key of DIRECTION_VECTORS.
KeyDirection(d) ==
    /\ status = "running"
    /\ pending_direction' = set_direction(d)
    /\ last' = IF IsOpposite(d, direction) THEN "direction_dropped" ELSE "direction_set"
    /\ UNCHANGED <<body, direction, grow_pending, position, score, game_over, paused,
                   status, food_eaten>>

\* A pause key that toggles whether or not the game is over.
toggled_Always(p, over) == ~p

\* handle_events, K_SPACE: paused after the key, "if not self.game_over: self.paused = not self.paused".
toggled(p, over) == IF ~over THEN ~p ELSE p

\* handle_events, KEYDOWN of K_SPACE.
KeySpace ==
    /\ status = "running"
    /\ paused' = toggled(paused, game_over)
    /\ last' = IF ~game_over THEN "pause_toggled" ELSE "pause_ignored"
    /\ UNCHANGED <<snake, position, score, game_over, status, food_eaten>>

\* A reset that forgets to clear paused.
reset_KeepsPaused ==
    /\ status = "running"
    /\ body' = InitialBody
    /\ direction' = InitialDirection
    /\ pending_direction' = InitialDirection
    /\ grow_pending' = 0
    /\ position' \in available(InitialBody)
    /\ score' = 0
    /\ game_over' = FALSE
    /\ food_eaten' = 0
    /\ last' = "reset"
    /\ UNCHANGED <<paused, status>>

\* handle_events, KEYDOWN of K_r: SnakeGame.reset.
reset ==
    /\ status = "running"
    /\ body' = InitialBody
    /\ direction' = InitialDirection
    /\ pending_direction' = InitialDirection
    /\ grow_pending' = 0
    /\ position' \in available(InitialBody)
    /\ score' = 0
    /\ game_over' = FALSE
    /\ paused' = FALSE
    /\ food_eaten' = 0
    /\ last' = "reset"
    /\ UNCHANGED status

\* handle_events, QUIT or KEYDOWN of K_ESCAPE: pygame.quit(); sys.exit().
Quit ==
    /\ status = "running"
    /\ status' = "exited"
    /\ last' = "quit"
    /\ UNCHANGED <<game, food_eaten>>

\* SnakeGame.update: snake.move(), then the wall, self and food checks.
update ==
    LET nb == move_body(body, pending_direction, grow_pending)
        gp == move_grow(grow_pending)
    IN
    /\ direction' = pending_direction
    /\ body' = nb
    /\ UNCHANGED <<pending_direction, paused>>
    /\ IF ~InGrid(nb[1]) THEN
            /\ game_over' = TRUE
            /\ grow_pending' = gp
            /\ last' = "hit_wall"
            /\ UNCHANGED <<position, score, status, food_eaten>>
       ELSE IF hits_self(nb) THEN
            /\ game_over' = TRUE
            /\ grow_pending' = gp
            /\ last' = "hit_self"
            /\ UNCHANGED <<position, score, status, food_eaten>>
       ELSE IF nb[1] = position THEN
            /\ grow_pending' = gp + 2
            /\ score' = score + 10
            /\ food_eaten' = food_eaten + 1
            /\ UNCHANGED game_over
            /\ IF available(nb) = {} THEN
                    \* random.choice([]) raises IndexError, which nothing catches
                    /\ status' = "crashed"
                    /\ last' = "relocate_raised"
                    /\ UNCHANGED position
               ELSE
                    /\ position' \in available(nb)
                    /\ last' = "ate"
                    /\ UNCHANGED status
       ELSE
            /\ grow_pending' = gp
            /\ last' = "moved"
            /\ UNCHANGED <<position, score, game_over, status, food_eaten>>

\* A frame that tests paused only.
Frame_IgnoresOver ==
    /\ status = "running"
    /\ IF ~paused
       THEN update
       ELSE /\ last' = "frame_skipped"
            /\ UNCHANGED <<game, status, food_eaten>>

\* A frame that tests game_over only.
Frame_IgnoresPaused ==
    /\ status = "running"
    /\ IF ~game_over
       THEN update
       ELSE /\ last' = "frame_skipped"
            /\ UNCHANGED <<game, status, food_eaten>>

\* One frame of SnakeGame.run after its events: update() unless over or paused.
Frame ==
    /\ status = "running"
    /\ IF ~game_over /\ ~paused
       THEN update
       ELSE /\ last' = "frame_skipped"
            /\ UNCHANGED <<game, status, food_eaten>>

Next ==
    \/ \E d \in DIRECTION_VECTORS : KeyDirection(d)
    \/ KeySpace
    \/ reset
    \/ Quit
    \/ Frame

Spec == Init /\ [][Next]_vars

\* The driver loop with no direction, pause or reset key in its event queue:
\* frames only, until the window is closed.  run() loops for ever, so a frame
\* that can be taken is eventually taken.
TicksNext ==
    \/ Frame
    \/ Quit

TicksOnly == Init /\ [][TicksNext]_vars /\ WF_vars(Frame)

----------------------------------------------------------------------------
\* Shorthands used by the properties below.

\* The game is active: a frame of this state runs update().
Active == status = "running" /\ ~game_over /\ ~paused

\* The cell the head of the current state moves to on the next update().
NextHead == Point(body[1][1] + pending_direction[1], body[1][2] + pending_direction[2])

\* grow_pending as move() leaves it.
AfterMoveGrow == IF grow_pending > 0 THEN grow_pending - 1 ELSE 0

\* The initial snake, written out cell by cell.
StartBody ==
    << Point(GRID_WIDTH \div 2, GRID_HEIGHT \div 2),
       Point((GRID_WIDTH \div 2) + 1, GRID_HEIGHT \div 2),
       Point((GRID_WIDTH \div 2) + 2, GRID_HEIGHT \div 2) >>

----------------------------------------------------------------------------
\* C1: a frame taken while paused or game_over is set leaves the snake (body,
\* direction, pending_direction, grow_pending), the food position, the score and
\* both flags unchanged.
C1_FrameIsNoOpWhenPausedOrOver ==
    [][(Frame /\ (paused \/ game_over)) =>
            /\ body' = body
            /\ direction' = direction
            /\ pending_direction' = pending_direction
            /\ grow_pending' = grow_pending
            /\ position' = position
            /\ score' = score
            /\ game_over' = game_over
            /\ paused' = paused]_vars

\* C1 witness: a frame was skipped in the Over state of a game that had eaten.
C1_Witness == last = "frame_skipped" /\ game_over /\ score > 0

\* C2: an active frame whose moved head lands on x = -1, x = W, y = -1 or y = H
\* sets game_over on that frame; food and score are untouched and grow() is not
\* called (grow_pending is what move() left).
C2_WallCollision ==
    [][(Frame /\ Active /\ (\/ NextHead[1] = -1
                            \/ NextHead[1] = GRID_WIDTH
                            \/ NextHead[2] = -1
                            \/ NextHead[2] = GRID_HEIGHT)) =>
            /\ game_over' = TRUE
            /\ body'[1] = NextHead
            /\ position' = position
            /\ score' = score
            /\ grow_pending' = AfterMoveGrow
            /\ paused' = paused
            /\ status' = "running"]_vars

\* C2 witness: the last frame ran the snake into a wall.
C2_Witness == last = "hit_wall" /\ game_over /\ body[1][1] = GRID_WIDTH

\* C3: an active frame after whose move the head is inside the grid and equals
\* another cell of the resulting body of length >= 4 sets game_over and leaves
\* food and score unchanged.
C3_SelfCollision ==
    [][(Frame /\ Active /\ Len(body') >= 4
              /\ 0 <= body'[1][1] /\ body'[1][1] < GRID_WIDTH
              /\ 0 <= body'[1][2] /\ body'[1][2] < GRID_HEIGHT
              /\ \E i \in 2..Len(body') : body'[i] = body'[1]) =>
            /\ game_over' = TRUE
            /\ position' = position
            /\ score' = score]_vars

\* C3 witness: the last frame ran the head into the snake's own body.
C3_Witness ==
    /\ last = "hit_self"
    /\ game_over
    /\ Len(body) >= 4
    /\ \E i \in 2..Len(body) : body[i] = body[1]

\* C4: an active frame whose moved head is in the grid, off the rest of the body
\* and on the food adds exactly 10 to score and exactly 2 to grow_pending (on top
\* of what move() left) and puts the food on a cell outside the moved body; an
\* active frame whose moved head is not on the food leaves score, food and
\* grow_pending (beyond move()'s decrement) alone.  In particular the 3-cell
\* snake one step left of its start, heading left with the food right ahead,
\* ends with the body shifted onto the food, score = 10 and grow_pending = 2.
C4_Eating ==
    [][(Frame /\ Active) =>
            /\ ( /\ 0 <= NextHead[1] /\ NextHead[1] < GRID_WIDTH
                 /\ 0 <= NextHead[2] /\ NextHead[2] < GRID_HEIGHT
                 /\ ~(\E i \in 2..Len(body') : body'[i] = NextHead)
                 /\ NextHead = position )
               => /\ score' = score + 10
                  /\ grow_pending' = AfterMoveGrow + 2
                  /\ position' \notin Elems(body')
            /\ (NextHead # position)
               => /\ score' = score
                  /\ grow_pending' = AfterMoveGrow
                  /\ position' = position
            /\ ( /\ body = << Point(StartBody[1][1] - 1, StartBody[1][2]),
                              StartBody[1], StartBody[2] >>
                 /\ pending_direction = Point(-1, 0)
                 /\ position = Point(StartBody[1][1] - 2, StartBody[1][2])
                 /\ grow_pending = 0
                 /\ score = 0 )
               => /\ body' = << position, body[1], body[2] >>
                  /\ score' = 10
                  /\ grow_pending' = 2]_vars

\* C5: whenever game_over is false the food is on no cell of the snake's body.
C5_FoodOutsideBody == ~game_over => position \notin Elems(body)

\* C6: except across a reset the body never gets shorter, and in every state
\* its length is 3 + 2 * (foods eaten since the reset) - grow_pending.
C6_BodyLength ==
    /\ Len(body) = 3 + 2 * food_eaten - grow_pending
    /\ [][ /\ (last' # "reset" => Len(body') >= Len(body))
           /\ Len(body') = 3 + 2 * food_eaten' - grow_pending' ]_vars

\* C6 witness: two foods eaten, part of the growth applied and part still pending.
C6_Witness == food_eaten = 2 /\ grow_pending > 0 /\ Len(body) > 4

\* C7: a direction request that is the exact opposite of the committed direction
\* changes nothing; any other request sets pending_direction to it and leaves
\* body, direction, grow_pending, food, score and flags unchanged.
C7_SetDirection ==
    [][\A d \in DIRECTION_VECTORS : KeyDirection(d) =>
            /\ pending_direction' =
                    IF d = Point(-direction[1], -direction[2]) THEN pending_direction ELSE d
            /\ body' = body
            /\ direction' = direction
            /\ grow_pending' = grow_pending
            /\ position' = position
            /\ score' = score
            /\ game_over' = game_over
            /\ paused' = paused]_vars

\* C7 witness: a reversal was dropped while another direction was pending.
C7_Witness == last = "direction_dropped" /\ pending_direction # direction

\* C8: right after construction or a reset, from whatever state, the score is 0, both flags are clear, the snake is
\* the initial 3-cell snake heading left with nothing pending and the food is
\* on a grid cell outside it.
C8_Reset ==
    last \in {"initial", "reset"} =>
        /\ score = 0
        /\ game_over = FALSE
        /\ paused = FALSE
        /\ body = StartBody
        /\ direction = Point(-1, 0)
        /\ pending_direction = Point(-1, 0)
        /\ grow_pending = 0
        /\ position \in Cells
        /\ \A i \in 1..Len(body) : body[i] # position

\* C8 witness: a reset was taken (the initial state carries last = "initial").
C8_Witness == last = "reset" /\ body = StartBody /\ score = 0

\* C9: the pause key flips paused when game_over is false and changes nothing
\* when it is true; either way snake, food, score and game_over are unchanged,
\* and a second press right after the first restores paused.
C9_PauseToggle ==
    [][KeySpace =>
            /\ paused' = (IF game_over THEN paused ELSE ~paused)
            /\ body' = body
            /\ direction' = direction
            /\ pending_direction' = pending_direction
            /\ grow_pending' = grow_pending
            /\ position' = position
            /\ score' = score
            /\ game_over' = game_over
            /\ toggled(toggled(paused, game_over), game_over') = paused]_vars

\* C9 witness: a game that had eaten was paused and then resumed.
C9_Witness == last = "pause_toggled" /\ ~paused /\ score > 0

\* C10: an active frame that eats the food while the moved body covers every
\* grid cell ends the game (game_over set) without an uncaught exception, with
\* the moved body intact and no food left inside the body of an active game.
C10_NoFreeCellEndsGame ==
    [][(Frame /\ Active /\ NextHead = position
              /\ ~(\E i \in 2..Len(body') : body'[i] = NextHead)
              /\ \A c \in Cells : \E i \in 1..Len(body') : body'[i] = c) =>
            /\ status' = "running"
            /\ game_over' = TRUE
            /\ body'[1] = NextHead
            /\ Len(body') = Len(body) + (IF grow_pending > 0 THEN 1 ELSE 0)]_vars

\* C11: whenever game_over is false the cells of the body are pairwise
\* distinct, so the head is on no other body cell: right after construction or
\* reset and after every frame that did not end the game.
C11_BodyCellsDistinct ==
    ~game_over => \A i, j \in 1..Len(body) : i # j => body[i] # body[j]

\* C11 witness: a game still running after a frame, with a body long enough to
\* bite itself (5 cells or more) and the head next to a later body cell.
C11_Witness ==
    /\ ~game_over
    /\ last = "moved"
    /\ Len(body) >= 5
    /\ \E i \in 4..Len(body) :
            (body[1][1] - body[i][1]) * (body[1][1] - body[i][1])
          + (body[1][2] - body[i][2]) * (body[1][2] - body[i][2]) = 1

\* C12: in every state the body has at least one cell and any two consecutive
\* body cells differ by exactly one cell along exactly one axis.
C12_BodyConnected ==
    /\ Len(body) >= 1
    /\ \A i \in 1..(Len(body) - 1) :
            \/ (body[i][1] = body[i + 1][1] /\ body[i][2] - body[i + 1][2] \in {-1, 1})
            \/ (body[i][2] = body[i + 1][2] /\ body[i][1] - body[i + 1][1] \in {-1, 1})

\* C12 witness: a grown snake that has turned a corner, after a frame.
C12_Witness ==
    /\ last \in {"moved", "ate"}
    /\ Len(body) >= 4
    /\ body[1][2] # body[Len(body)][2]

\* C13: a direction request is taken in any state, paused included: unless it
\* is the reverse of the committed direction it becomes pending_direction, and
\* it never changes the committed direction or the body.  The next move()
\* commits direction = the pending_direction of that moment and puts the new
\* head at the old head plus that direction.
C13_RequestTakesEffectAtNextMove ==
    [][ /\ \A d \in DIRECTION_VECTORS : KeyDirection(d) =>
                /\ direction' = direction
                /\ body' = body
                /\ (d # Point(-direction[1], -direction[2]) => pending_direction' = d)
        /\ (Frame /\ Active) =>
                /\ direction' = pending_direction
                /\ body'[1] = Point(body[1][1] + pending_direction[1],
                                    body[1][2] + pending_direction[2])
                /\ pending_direction' = pending_direction ]_vars

\* C13 witness: a request accepted while paused, not yet committed.
C13_Witness ==
    /\ last = "direction_set"
    /\ paused
    /\ pending_direction # direction

\* C14: game_over turns true only in an active frame whose moved head is
\* outside the grid or on another body cell; once true it stays true, with
\* body, food and score frozen, through every step other than a reset.
C14_OverOnlyByCollisionAndSticky ==
    [][ /\ (~game_over /\ game_over') =>
                /\ Frame /\ Active
                /\ \/ body'[1][1] < 0 \/ body'[1][1] >= GRID_WIDTH
                   \/ body'[1][2] < 0 \/ body'[1][2] >= GRID_HEIGHT
                   \/ \E i \in 2..Len(body') : body'[i] = body'[1]
        /\ (game_over /\ last' # "reset") =>
                /\ game_over'
                /\ body' = body
                /\ position' = position
                /\ score' = score ]_vars

\* C14 witness: a game ended by a collision, still over after further frames
\* and key presses.
C14_Witness ==
    /\ game_over
    /\ last \in {"frame_skipped", "pause_ignored", "direction_set", "direction_dropped"}
    /\ score > 0

\* C15: the self-collision test sees the body that move() produced.  With
\* grow_pending = 0 at the start of the move the old tail cell is vacated (it is
\* no cell of the moved body behind the head), so a head moving onto it does not
\* end the game; with grow_pending > 0 the tail is kept, and a head moving onto
\* it ends the game.
C15_TailCellVacatedUnlessGrowing ==
    [][(Frame /\ Active) =>
            /\ (grow_pending = 0) =>
                    /\ \A i \in 2..Len(body') : body'[i] # body[Len(body)]
                    /\ (NextHead = body[Len(body)] => ~game_over')
            /\ (grow_pending > 0) =>
                    /\ body'[Len(body')] = body[Len(body)]
                    /\ (NextHead = body[Len(body)] => game_over') ]_vars

\* C15 witness: the head has just run into the tail cell that a growing snake kept.
C15_Witness ==
    /\ last = "hit_self"
    /\ game_over
    /\ body[1] = body[Len(body)]

\* C16: in every state, however many direction requests came between two
\* frames and in whatever order, pending_direction is not the reverse of the
\* committed direction; so no move puts the new head on the cell that was the
\* second body cell (the neck).
C16_NeverReversesIntoNeck ==
    /\ pending_direction # Point(-direction[1], -direction[2])
    /\ [][ /\ pending_direction' # Point(-direction'[1], -direction'[2])
           /\ (Frame /\ Active) => body'[1] # body[2] ]_vars

\* C16 witness: in a game that has grown, a reversal was asked for and dropped
\* after a turn had been requested in the same frame interval.
C16_Witness ==
    /\ last = "direction_dropped"
    /\ pending_direction # direction
    /\ Len(body) > 3

\* C17: paused and game_over are never both true.
C17_PausedAndOverExclusive == ~(paused /\ game_over)

\* C17 witness: the pause key was pressed in the Over state and ignored.
C17_Witness == last = "pause_ignored" /\ game_over /\ ~paused

\* C18: while game_over is false every body cell is inside the grid; the food
\* is inside the grid in every state; in the Over state only the head can be
\* outside.
C18_InsideGrid ==
    /\ 0 <= position[1] /\ position[1] < GRID_WIDTH
    /\ 0 <= position[2] /\ position[2] < GRID_HEIGHT
    /\ \A i \in 1..Len(body) :
            (i > 1 \/ ~game_over) =>
                /\ 0 <= body[i][1] /\ body[i][1] < GRID_WIDTH
                /\ 0 <= body[i][2] /\ body[i][2] < GRID_HEIGHT

\* C18 witness: a game over with the head outside the grid and a grown body inside.
C18_Witness ==
    /\ game_over
    /\ body[1][2] = -1
    /\ Len(body) > 3

\* C19: a frame whose moved body has 4 cells or fewer never ends the game by
\* self collision (a game it ends has its head outside the grid); so the initial
\* 3-cell snake cannot bite itself before it has eaten.
C19_SelfCollisionNeedsFiveCells ==
    [][(Frame /\ Active /\ Len(body') <= 4 /\ game_over') =>
            \/ body'[1][1] < 0 \/ body'[1][1] >= GRID_WIDTH
            \/ body'[1][2] < 0 \/ body'[1][2] >= GRID_HEIGHT ]_vars

\* C19 witness: a self collision of a body of exactly five cells.
C19_Witness ==
    /\ last = "hit_self"
    /\ Len(body) = 5
    /\ body[1] = body[5]

\* C20: from a fresh game, with frames only (no direction request, no pause, no
\* reset), every active frame moves the head one cell to the left along the
\* starting row, the game is over exactly when the head stands at x = -1, that
\* is after GRID_WIDTH \div 2 + 1 frames, no frame fails on the way, and unless
\* the frames stop (the process exits) the game is eventually over by the left
\* wall, wherever the food is and whether or not it is eaten on the way.
C20_RunsIntoLeftWall ==
    /\ body[1] = Point(GRID_WIDTH \div 2, GRID_HEIGHT \div 2)
    /\ [][(Frame /\ Active) => body'[1] = Point(body[1][1] - 1, body[1][2])]_vars
    /\ [](game_over <=> body[1] = Point(-1, GRID_HEIGHT \div 2))
    /\ [](status # "crashed")
    /\ <>(game_over \/ status = "exited")

\* C20 witness: the left wall was hit after the food had been eaten on the way.
C20_Witness ==
    /\ game_over
    /\ last = "hit_wall"
    /\ body[1] = Point(-1, GRID_HEIGHT \div 2)
    /\ score > 0
    /\ Len(body) > 3

====
